---- MODULE Spec2Model ----
(***************************************************************************)
(* Connection lifecycle and scheduled publishing of the CAN gateway:       *)
(*   can_gateway/docker/basic_mqtt_client.py  (CANGatewayMQTTClient)       *)
(*   can_gateway/docker/app.py                (publisher, control surface, *)
(*                                             startup and shutdown)       *)
(* Each action is one step of one execution context: the main thread, the  *)
(* publisher thread, a request handler, or the transport's dispatch        *)
(* context delivering online/offline notifications.                        *)
(*                                                                         *)
(* The batch pipeline of src/processor.py (CANMessageValidator and         *)
(* CANDataProcessor) with the settings of src/config.py is a separate      *)
(* program; it has its own variables and its own specifications below.     *)
(***************************************************************************)
EXTENDS Integers, Sequences, FiniteSets, TLC

\* range(20) in connect(): number of polls of the connectivity flag
PollCount == 20

\* bound on the number of publish cycles the publisher thread is followed for
MaxCycles == 4

\* bound on the clock of the timed specification, in ticks
MaxTime == 7

\* config['publish_interval_seconds'] in ticks; a tick is half an interval
Interval == 2

\* outcomes of one call into the transport (AWSIoTMQTTClient): returns or raises
TxOutcomes == {"ok", "raise"}

\* request bodies of POST /publish: none, an empty JSON object, a JSON object
Bodies == {"none", "empty", "object", "array", "malformed"}

VARIABLES
    mainPc,         \* position of the main thread (__main__, initialize_mqtt, shutdown)
    exitCode,       \* process exit code, -1 while running
    mqtt_client,    \* app.mqtt_client: "None" or "client"
    is_connected,   \* CANGatewayMQTTClient.is_connected
    connPc,         \* position inside connect()
    i,              \* polls of the flag made by connect() so far
    probes,         \* probe publishes issued by connect()
    connResult,     \* what connect() gave its caller: "none", "true", "false", "raise"
    hs,             \* outcome of the handshake: "none", "ok", "raise"
    probe,          \* outcome of the probe publish: "none", "ok", "raise"
    onlineEver,     \* an online notification has been delivered
    lastNotif,      \* most recent notification: "none", "online", "offline"
    connOnline,     \* an online notification fired between connect()'s start and its last poll
    winOnline,      \* an online notification fired inside the confirmation window
    winStanding,    \* ... and no offline notification has followed it inside the window
    stop_event,     \* app.stop_event
    pubPc,          \* position of the publisher thread
    cycles,         \* publish cycles started by the publisher thread
    lastCycle,      \* how the last finished cycle ended
    lastCall,       \* the last publish() or subscribe() call on the client and what it gave
    disconnects,    \* calls of CANGatewayMQTTClient.disconnect
    resp,           \* last response of the control surface
    now,            \* time in ticks since the publisher thread was started
    waitStart,      \* the tick at which the publisher's current interval wait began
    stopTime,       \* the tick at which the shutdown signal was set
    row,            \* the message handed to validate_message
    verdict,        \* what validate_message returned for it
    input_file,     \* the data rows of the CSV file given to run()
    procPc,         \* position inside CANDataProcessor.run
    readResult,     \* what read_can_data gave run(): "none", "list", "raise"
    line,           \* data rows read_can_data has handed to validate_message
    valid_messages, \* read_can_data's list of accepted rows
    invalid_count,  \* read_can_data's count of rejected rows
    uploads,        \* calls of upload_to_s3 made by run()
    runResult       \* what run() gave its caller: "none", "true", "false", "raise"

vars == <<mainPc, exitCode, mqtt_client, is_connected, connPc, i, probes,
          connResult, hs, probe, onlineEver, lastNotif, connOnline, winOnline,
          winStanding, stop_event, pubPc, cycles, lastCycle, lastCall,
          disconnects, resp, now, waitStart,
          stopTime, row, verdict, input_file, procPc, readResult, line,
          valid_messages, invalid_count, uploads, runResult>>

gatewayVars == <<mainPc, exitCode, mqtt_client, is_connected, connPc, i, probes,
                 connResult, hs, probe, onlineEver, lastNotif, connOnline,
                 winOnline, winStanding, stop_event, pubPc, cycles, lastCycle,
                 lastCall, disconnects, resp, now, waitStart, stopTime>>

procVars == <<row, verdict, input_file, procPc, readResult, line,
              valid_messages, invalid_count, uploads, runResult>>

readVars == <<line, valid_messages, invalid_count>>

clockVars == <<now, waitStart, stopTime>>
mainVars == <<mainPc, exitCode>>
connVars == <<connPc, i, probes, connResult, hs, probe>>
notifVars == <<onlineEver, lastNotif, connOnline, winOnline, winStanding>>
pubVars == <<pubPc, cycles, lastCycle>>

NoCall == [op |-> "none", caller |-> "none", ret |-> TRUE, raised |-> FALSE,
           sent |-> FALSE]

NoResp == [op |-> "none", code |-> 0]

\* a key that is not in the dict
Absent == [kind |-> "absent", s |-> <<>>]

AbsentRow == [timestamp |-> Absent, can_id |-> Absent, data |-> Absent,
              dlc |-> Absent]

NoVerdict == [valid |-> FALSE, error |-> "not called"]

\* the batch pipeline is not running
ProcIdle ==
    /\ row = AbsentRow
    /\ verdict = NoVerdict
    /\ input_file = <<>>
    /\ procPc = "idle"
    /\ readResult = "none"
    /\ line = 0
    /\ valid_messages = <<>>
    /\ invalid_count = 0
    /\ uploads = 0
    /\ runResult = "none"

GatewayInit ==
    /\ mainPc = "load"
    /\ exitCode = -1
    /\ mqtt_client = "None"
    /\ is_connected = FALSE
    /\ connPc = "idle"
    /\ i = 0
    /\ probes = 0
    /\ connResult = "none"
    /\ hs = "none"
    /\ probe = "none"
    /\ onlineEver = FALSE
    /\ lastNotif = "none"
    /\ connOnline = FALSE
    /\ winOnline = FALSE
    /\ winStanding = FALSE
    /\ stop_event = FALSE
    /\ pubPc = "unstarted"
    /\ cycles = 0
    /\ lastCycle = "none"
    /\ lastCall = NoCall
    /\ disconnects = 0
    /\ resp = NoResp
    /\ now = 0
    /\ waitStart = 0
    /\ stopTime = 0

Init ==
    /\ GatewayInit
    /\ ProcIdle

Running == mainPc # "exited"

----------------------------------------------------------------------------
(* Transport notifications: _on_online / _on_offline                       *)

\* the transport's dispatch context exists once mqtt_client.connect() was entered
TransportActive == connPc # "idle" /\ Running

\* the confirmation window: handshake returned, at least one poll still to come
InWindow == connPc = "poll"

OnOnline ==
    /\ TransportActive
    /\ is_connected' = TRUE
    /\ onlineEver' = TRUE
    /\ lastNotif' = "online"
    /\ connOnline' = (connOnline \/ connPc \in {"handshake", "poll"})
    /\ winOnline' = (winOnline \/ InWindow)
    /\ winStanding' = (winStanding \/ InWindow)
    /\ UNCHANGED <<procVars, clockVars, mainVars, mqtt_client, connVars, stop_event, pubVars,
                   lastCall, disconnects, resp>>

\* variant: _on_offline only logs, the flag keeps its value
OnOffline_KeepsFlag ==
    /\ TransportActive
    /\ is_connected' = is_connected
    /\ lastNotif' = "offline"
    /\ winStanding' = (IF InWindow THEN FALSE ELSE winStanding)
    /\ UNCHANGED <<procVars, clockVars, mainVars, mqtt_client, connVars, onlineEver, connOnline,
                   winOnline, stop_event, pubVars, lastCall,
                   disconnects, resp>>

OnOffline ==
    /\ TransportActive
    /\ is_connected' = FALSE
    /\ lastNotif' = "offline"
    /\ winStanding' = (IF InWindow THEN FALSE ELSE winStanding)
    /\ UNCHANGED <<procVars, clockVars, mainVars, mqtt_client, connVars, onlineEver, connOnline,
                   winOnline, stop_event, pubVars, lastCall,
                   disconnects, resp>>

----------------------------------------------------------------------------
(* Startup: __main__ and initialize_mqtt                                   *)

LoadConfig ==
    /\ mainPc = "load"
    /\ mainPc' = "init"
    /\ UNCHANGED <<procVars, clockVars, exitCode, mqtt_client, is_connected, connVars, notifVars,
                   stop_event, pubVars, lastCall, disconnects, resp>>

\* variant: __init__ leaves is_connected True
Construct_StartsConnected(ok) ==
    /\ mainPc = "init"
    /\ IF ok
         THEN /\ mqtt_client' = "client"
              /\ is_connected' = TRUE
              /\ mainPc' = "connecting"
              /\ connPc' = "handshake"
              /\ exitCode' = exitCode
         ELSE /\ mainPc' = "exited"
              /\ exitCode' = 1
              /\ UNCHANGED <<mqtt_client, is_connected, connPc>>
    /\ UNCHANGED <<procVars, clockVars, i, probes, connResult, hs, probe, notifVars, stop_event,
                   pubVars, lastCall, disconnects, resp>>

\* CANGatewayMQTTClient('config.json'); a raise is caught by initialize_mqtt,
\* which returns False, and __main__ exits with code 1
Construct(ok) ==
    /\ mainPc = "init"
    /\ IF ok
         THEN /\ mqtt_client' = "client"
              /\ is_connected' = FALSE
              /\ mainPc' = "connecting"
              /\ connPc' = "handshake"
              /\ exitCode' = exitCode
         ELSE /\ mainPc' = "exited"
              /\ exitCode' = 1
              /\ UNCHANGED <<mqtt_client, is_connected, connPc>>
    /\ UNCHANGED <<procVars, clockVars, i, probes, connResult, hs, probe, notifVars, stop_event,
                   pubVars, lastCall, disconnects, resp>>

----------------------------------------------------------------------------
(* CANGatewayMQTTClient.connect                                            *)

\* variant: no outer try/except, the handshake's exception leaves connect()
ConnectHandshake_Propagates(o) ==
    /\ connPc = "handshake"
    /\ Running
    /\ hs' = o
    /\ IF o = "ok"
         THEN /\ connPc' = "poll"
              /\ connResult' = connResult
         ELSE /\ connPc' = "done"
              /\ connResult' = "raise"
    /\ UNCHANGED <<procVars, clockVars, mainVars, mqtt_client, is_connected, i, probes, probe,
                   notifVars, stop_event, pubVars, lastCall, disconnects, resp>>

\* self.mqtt_client.connect(); a raise goes to the outer except: return False
ConnectHandshake(o) ==
    /\ connPc = "handshake"
    /\ Running
    /\ hs' = o
    /\ IF o = "ok"
         THEN /\ connPc' = "poll"
              /\ connResult' = connResult
         ELSE /\ connPc' = "done"
              /\ connResult' = "false"
    /\ UNCHANGED <<procVars, clockVars, mainVars, mqtt_client, is_connected, i, probes, probe,
                   notifVars, stop_event, pubVars, lastCall,
                   disconnects, resp>>

\* variant: the loop only sleeps, the flag is never read
ConnectPoll_IgnoresFlag ==
    /\ connPc = "poll"
    /\ Running
    /\ i' = i + 1
    /\ connPc' = (IF i + 1 = PollCount THEN "probe" ELSE "poll")
    /\ connResult' = connResult
    /\ UNCHANGED <<procVars, clockVars, mainVars, mqtt_client, is_connected, probes, hs, probe,
                   notifVars, stop_event, pubVars, lastCall, disconnects, resp>>

\* variant: while True instead of range(20), the loop waits for the flag
ConnectPoll_Unbounded ==
    /\ connPc = "poll"
    /\ Running
    /\ i' = i
    /\ IF is_connected
         THEN /\ connPc' = "done"
              /\ connResult' = "true"
         ELSE /\ connPc' = "poll"
              /\ connResult' = connResult
    /\ UNCHANGED <<procVars, clockVars, mainVars, mqtt_client, is_connected, probes, hs, probe,
                   notifVars, stop_event, pubVars, lastCall, disconnects, resp>>

\* one pass of the for loop: sleep(0.5), read the flag, return True if it is set
ConnectPoll ==
    /\ connPc = "poll"
    /\ Running
    /\ i' = i + 1
    /\ IF is_connected
         THEN /\ connPc' = "done"
              /\ connResult' = "true"
         ELSE /\ connPc' = (IF i + 1 = PollCount THEN "probe" ELSE "poll")
              /\ connResult' = connResult
    /\ UNCHANGED <<procVars, clockVars, mainVars, mqtt_client, is_connected, probes, hs, probe,
                   notifVars, stop_event, pubVars, lastCall,
                   disconnects, resp>>

\* variant: the probe's except branch returns True as well
ConnectProbe_RaiseIsTrue(tx) ==
    /\ connPc = "probe"
    /\ Running
    /\ probes' = probes + 1
    /\ probe' = tx
    /\ IF tx = "ok"
         THEN /\ connPc' = "confirm"
              /\ connResult' = connResult
         ELSE /\ connPc' = "done"
              /\ connResult' = "true"
    /\ UNCHANGED <<procVars, clockVars, mainVars, mqtt_client, is_connected, i, hs, notifVars,
                   stop_event, pubVars, lastCall, disconnects, resp>>

\* the test publish to $aws/things/<client_id>/shadow/get; a raise: return False
ConnectProbe(tx) ==
    /\ connPc = "probe"
    /\ Running
    /\ probes' = probes + 1
    /\ probe' = tx
    /\ IF tx = "ok"
         THEN /\ connPc' = "confirm"
              /\ connResult' = connResult
         ELSE /\ connPc' = "done"
              /\ connResult' = "false"
    /\ UNCHANGED <<procVars, clockVars, mainVars, mqtt_client, is_connected, i, hs, notifVars,
                   stop_event, pubVars, lastCall, disconnects, resp>>

\* the probe did not raise: self.is_connected = True; return True
ConnectConfirm ==
    /\ connPc = "confirm"
    /\ Running
    /\ is_connected' = TRUE
    /\ connPc' = "done"
    /\ connResult' = "true"
    /\ UNCHANGED <<procVars, clockVars, mainVars, mqtt_client, i, probes, hs, probe, notifVars,
                   stop_event, pubVars, lastCall, disconnects, resp>>

ConnectStep ==
    \/ \E o \in TxOutcomes : ConnectHandshake(o)
    \/ ConnectPoll
    \/ \E tx \in TxOutcomes : ConnectProbe(tx)
    \/ ConnectConfirm

\* variant: __main__ goes on whatever initialize_mqtt returned
InitReturn_IgnoresResult ==
    /\ mainPc = "connecting"
    /\ connPc = "done"
    /\ mainPc' = "start_pub"
    /\ exitCode' = exitCode
    /\ i' = 0
    /\ UNCHANGED <<procVars, clockVars, mqtt_client, is_connected, connPc, probes, connResult, hs,
                   probe, notifVars, stop_event, pubVars, lastCall,
                   disconnects, resp>>

\* initialize_mqtt after connect() came back, and the test in __main__:
\* True goes on to start the publisher, anything else is exit(1)
InitReturn ==
    /\ mainPc = "connecting"
    /\ connPc = "done"
    /\ IF connResult = "true"
         THEN /\ mainPc' = "start_pub"
              /\ exitCode' = exitCode
         ELSE /\ mainPc' = "exited"
              /\ exitCode' = 1
    /\ i' = 0  \* connect()'s frame is gone, and its loop counter with it
    /\ UNCHANGED <<procVars, clockVars, mqtt_client, is_connected, connPc, probes, connResult, hs,
                   probe, notifVars, stop_event, pubVars, lastCall,
                   disconnects, resp>>

\* start_publisher_thread, then app.run
StartPublisher ==
    /\ mainPc = "start_pub"
    /\ pubPc' = "loop"
    /\ mainPc' = "serving"
    /\ UNCHANGED <<procVars, clockVars, exitCode, mqtt_client, is_connected, connVars, notifVars,
                   stop_event, cycles, lastCycle, lastCall,
                   disconnects, resp>>

----------------------------------------------------------------------------
(* CANGatewayMQTTClient.publish / subscribe / disconnect                   *)

\* variant: no try/except, a failure leaves publish() as an exception
publish_Propagates(caller, serializable, tx) ==
    IF serializable /\ tx = "ok"
      THEN [op |-> "publish", caller |-> caller, ret |-> TRUE,
            raised |-> FALSE, sent |-> TRUE]
      ELSE [op |-> "publish", caller |-> caller, ret |-> FALSE,
            raised |-> TRUE, sent |-> FALSE]

\* publish(topic, payload, qos): json.dumps, then the transport write; any
\* Exception of either is caught and turned into False
publish(caller, serializable, tx) ==
    IF serializable /\ tx = "ok"
      THEN [op |-> "publish", caller |-> caller, ret |-> TRUE,
            raised |-> FALSE, sent |-> TRUE]
      ELSE [op |-> "publish", caller |-> caller, ret |-> FALSE,
            raised |-> FALSE, sent |-> FALSE]

\* subscribe(topic, callback): True, or False when the transport raises
subscribe(tx) ==
    [op |-> "subscribe", caller |-> "client", ret |-> (tx = "ok"),
     raised |-> FALSE, sent |-> FALSE]

\* a caller holding the client publishes on it directly, with any dict
\* (the script of basic_mqtt_client.py does, after connect() returned True)
ClientPublish(serializable, tx) ==
    /\ mainPc = "serving"
    /\ lastCall' = publish("client", serializable, tx)
    /\ UNCHANGED <<procVars, clockVars, mainVars, mqtt_client, is_connected, connVars, notifVars,
                   stop_event, pubVars, disconnects, resp>>

ClientSubscribe(tx) ==
    /\ mainPc = "serving"
    /\ lastCall' = subscribe(tx)
    /\ UNCHANGED <<procVars, clockVars, mainVars, mqtt_client, is_connected, connVars, notifVars,
                   stop_event, pubVars, disconnects, resp>>

\* disconnect(): the transport's disconnect; a raise is logged and swallowed
disconnect(tx) == "returned"

\* variant: disconnect() also clears the flag
ShutdownDisconnect_ClearsFlag(tx) ==
    /\ mainPc = "sd_disc"
    /\ IF mqtt_client # "None"
         THEN disconnects' = disconnects + 1
         ELSE disconnects' = disconnects
    /\ is_connected' = FALSE
    /\ IF mqtt_client # "None" /\ disconnect(tx) = "raised"
         THEN mainPc' = "exited" /\ exitCode' = 1
         ELSE mainPc' = "sd_done" /\ exitCode' = exitCode
    /\ UNCHANGED <<procVars, clockVars, mqtt_client, connVars, notifVars, stop_event,
                   pubVars, lastCall, resp>>

\* shutdown(): if mqtt_client: mqtt_client.disconnect(); an exception leaving
\* disconnect() would leave shutdown() and end the process
ShutdownDisconnect(tx) ==
    /\ mainPc = "sd_disc"
    /\ IF mqtt_client # "None"
         THEN disconnects' = disconnects + 1
         ELSE disconnects' = disconnects
    /\ IF mqtt_client # "None" /\ disconnect(tx) = "raised"
         THEN mainPc' = "exited" /\ exitCode' = 1
         ELSE mainPc' = "sd_done" /\ exitCode' = exitCode
    /\ UNCHANGED <<procVars, clockVars, mqtt_client, is_connected, connVars, notifVars,
                   stop_event, pubVars, lastCall, resp>>

----------------------------------------------------------------------------
(* Scheduled publisher: publisher_loop and publish_telemetry               *)

\* variant: no try/except in the loop, a raising cycle ends the thread
AfterCycle_NoExcept(outcome) == IF outcome = "raise" THEN "stopped" ELSE "wait"

\* variant: a skipped cycle is retried at once (continue before the wait)
AfterCycle_SkipRetries(outcome) == IF outcome = "skipped" THEN "loop" ELSE "wait"

\* variant: the loop has no wait at all
AfterCycle_NoWait(outcome) == "loop"

\* where the loop goes when a cycle has ended: the try/except around
\* publish_telemetry() catches a raise, and the interval wait follows
AfterCycle(outcome) == "wait"

\* variant: the loop clears the event when it has seen it
PubCheckStop_ClearsEvent ==
    /\ pubPc = "loop"
    /\ Running
    /\ IF stop_event
         THEN /\ pubPc' = "stopped"
              /\ cycles' = cycles
              /\ stop_event' = FALSE
         ELSE /\ cycles < MaxCycles
              /\ pubPc' = "gate"
              /\ cycles' = cycles + 1
              /\ stop_event' = stop_event
    /\ UNCHANGED <<procVars, clockVars, mainVars, mqtt_client, is_connected, connVars,
                   notifVars, lastCycle, lastCall, disconnects, resp>>

\* while not stop_event.is_set()
PubCheckStop ==
    /\ pubPc = "loop"
    /\ Running
    /\ IF stop_event
         THEN /\ pubPc' = "stopped"
              /\ cycles' = cycles
         ELSE /\ cycles < MaxCycles
              /\ pubPc' = "gate"
              /\ cycles' = cycles + 1
    /\ UNCHANGED <<procVars, clockVars, mainVars, mqtt_client, is_connected, connVars, notifVars,
                   stop_event, lastCycle, lastCall, disconnects, resp>>

\* publish_telemetry: the test of mqtt_client and mqtt_client.is_connected;
\* fault: an Exception raised inside the cycle (MemoryError and the like)
PubGate(fault) ==
    /\ pubPc = "gate"
    /\ Running
    /\ IF fault
         THEN /\ lastCycle' = "raise"
              /\ pubPc' = AfterCycle("raise")
         ELSE IF mqtt_client # "None" /\ is_connected
           THEN /\ lastCycle' = lastCycle
                /\ pubPc' = "publish"
           ELSE /\ lastCycle' = "skipped"
                /\ pubPc' = AfterCycle("skipped")
    /\ waitStart' = (IF pubPc' = "wait" THEN now ELSE waitStart)
    /\ UNCHANGED <<procVars, now, stopTime, mainVars, mqtt_client, is_connected, connVars, notifVars,
                   stop_event, cycles, lastCall, disconnects, resp>>

\* publish_telemetry: mqtt_client.publish(topic, payload, qos=1) and its result
PubPublish(tx) ==
    /\ pubPc = "publish"
    /\ Running
    /\ lastCall' = publish("scheduled", TRUE, tx)
    /\ lastCycle' = (IF lastCall'.raised THEN "raise"
                     ELSE IF lastCall'.ret THEN "true" ELSE "false")
    /\ pubPc' = AfterCycle(lastCycle')
    /\ waitStart' = now
    /\ UNCHANGED <<procVars, now, stopTime, mainVars, mqtt_client, is_connected, connVars, notifVars,
                   stop_event, cycles, disconnects, resp>>

\* stop_event.wait(timeout=interval) returns: the interval elapsed or the
\* event is set
PubWait ==
    /\ pubPc = "wait"
    /\ Running
    /\ pubPc' = "loop"
    /\ UNCHANGED <<procVars, clockVars, mainVars, mqtt_client, is_connected, connVars, notifVars,
                   stop_event, cycles, lastCycle, lastCall,
                   disconnects, resp>>

----------------------------------------------------------------------------
(* Control surface: health_check, manual_publish, get_config               *)

DefaultPayload == [timestamp |-> "now", gateway_id |-> "thing",
                   status |-> "online", message |-> "Manual publish"]

SuppliedBody == [timestamp |-> "old", status |-> "custom", speed |-> "42"]

\* request.json: None for no body, the parsed value for a JSON body, and an
\* exception (BadRequest) for a body that is not JSON
request_json(body) ==
    CASE body = "none"      -> "None"
      [] body = "empty"     -> "empty_dict"
      [] body = "object"    -> "dict"
      [] body = "array"     -> "list"
      [] body = "malformed" -> "raises"

\* `if request.json:` a non-empty dict or list is true; None and {} are false
Truthy(v) == v \in {"dict", "list"}

\* the body SuppliedBody stands for
SuppliedOf(body) ==
    IF body = "empty" THEN [timestamp |-> "now"]
                      ELSE [SuppliedBody EXCEPT !.timestamp = "now"]

\* lines 104-113: the supplied body with timestamp overwritten, or the
\* default envelope
ManualPayload(body) ==
    IF Truthy(request_json(body))
      THEN SuppliedOf(body)
      ELSE DefaultPayload

\* reading request.json raises, or payload['timestamp'] = ... raises
\* TypeError on a list
PayloadRaises(body) ==
    \/ request_json(body) = "raises"
    \/ Truthy(request_json(body)) /\ request_json(body) = "list"

\* variant: the handler answers 200 whatever publish returned
ManualResponse_Always200(body, raised, ret) ==
    IF ~raised
      THEN [op |-> "publish", body |-> body, code |-> 200,
            status |-> "success", payload |-> ManualPayload(body)]
      ELSE [op |-> "publish", body |-> body, code |-> 500,
            status |-> "error"]

\* lines 118-133: 200 with the payload when publish returned True, 500 with
\* an error status when it returned False or the handler's except caught
ManualResponse(body, raised, ret) ==
    IF ~raised /\ ret
      THEN [op |-> "publish", body |-> body, code |-> 200,
            status |-> "success", payload |-> ManualPayload(body)]
      ELSE [op |-> "publish", body |-> body, code |-> 500,
            status |-> "error"]

health_check ==
    [op |-> "health", code |-> 200,
     mqtt_connected |-> (IF mqtt_client # "None" THEN is_connected ELSE FALSE)]

\* variant: the handler waits while the publisher is inside publish()
Health_BlocksOnPublish ==
    /\ mainPc = "serving"
    /\ pubPc # "publish"
    /\ resp' = health_check
    /\ UNCHANGED <<procVars, clockVars, mainVars, mqtt_client, is_connected, connVars, notifVars,
                   stop_event, pubVars, lastCall, disconnects>>

Health ==
    /\ mainPc = "serving"
    /\ resp' = health_check
    /\ UNCHANGED <<procVars, clockVars, mainVars, mqtt_client, is_connected, connVars, notifVars,
                   stop_event, pubVars, lastCall, disconnects>>

GetConfig ==
    /\ mainPc = "serving"
    /\ resp' = [op |-> "config", code |-> 200]
    /\ UNCHANGED <<procVars, clockVars, mainVars, mqtt_client, is_connected, connVars, notifVars,
                   stop_event, pubVars, lastCall, disconnects>>

\* variant: manual_publish tests is_connected as publish_telemetry does
ManualPublish_Gated(body, tx) ==
    /\ mainPc = "serving"
    /\ IF PayloadRaises(body) \/ mqtt_client = "None" \/ ~is_connected
         THEN /\ resp' = ManualResponse(body, TRUE, FALSE)
              /\ UNCHANGED lastCall
         ELSE /\ lastCall' = publish("manual", TRUE, tx)
              /\ resp' = ManualResponse(body, lastCall'.raised, lastCall'.ret)
    /\ UNCHANGED <<procVars, clockVars, mainVars, mqtt_client, is_connected, connVars, notifVars,
                   stop_event, pubVars, disconnects>>

\* manual_publish: with no client the attribute access raises; every
\* exception inside the handler is caught by its except and answered 500
ManualPublish(body, tx) ==
    /\ mainPc = "serving"
    /\ IF PayloadRaises(body) \/ mqtt_client = "None"
         THEN /\ resp' = ManualResponse(body, TRUE, FALSE)
              /\ UNCHANGED lastCall
         ELSE /\ lastCall' = publish("manual", TRUE, tx)
              /\ resp' = ManualResponse(body, lastCall'.raised, lastCall'.ret)
    /\ UNCHANGED <<procVars, clockVars, mainVars, mqtt_client, is_connected, connVars, notifVars,
                   stop_event, pubVars, disconnects>>

----------------------------------------------------------------------------
(* Termination: __main__ and shutdown                                      *)

\* app.run is interrupted by KeyboardInterrupt: shutdown() is entered
KeyboardInterrupt ==
    /\ mainPc = "serving"
    /\ mainPc' = "sd_set"
    /\ UNCHANGED <<procVars, clockVars, exitCode, mqtt_client, is_connected, connVars, notifVars,
                   stop_event, pubVars, lastCall, disconnects, resp>>

\* app.run ends with any other exception: nothing catches it, the process
\* ends and takes the daemon publisher thread with it
AppRunRaises ==
    /\ mainPc = "serving"
    /\ mainPc' = "exited"
    /\ exitCode' = 1
    /\ UNCHANGED <<procVars, clockVars, mqtt_client, is_connected, connVars, notifVars, stop_event,
                   pubVars, lastCall, disconnects, resp>>

\* variant: shutdown() goes to the join without setting the event
ShutdownSet_Forgets ==
    /\ mainPc = "sd_set"
    /\ mainPc' = "sd_join"
    /\ UNCHANGED <<procVars, clockVars, stop_event, exitCode, mqtt_client, is_connected,
                   connVars, notifVars, pubVars, lastCall, disconnects, resp>>

\* stop_event.set()
ShutdownSet ==
    /\ mainPc = "sd_set"
    /\ stop_event' = TRUE
    /\ mainPc' = "sd_join"
    /\ stopTime' = now
    /\ UNCHANGED <<procVars, now, waitStart, exitCode, mqtt_client, is_connected, connVars, notifVars,
                   pubVars, lastCall, disconnects, resp>>

\* publisher_thread.join(timeout=5): the thread has ended, or the 5 seconds
\* have passed with the thread still alive
ShutdownJoin(timedOut) ==
    /\ mainPc = "sd_join"
    /\ IF timedOut THEN pubPc # "stopped" ELSE pubPc \in {"stopped", "unstarted"}
    /\ mainPc' = "sd_disc"
    /\ UNCHANGED <<procVars, clockVars, exitCode, mqtt_client, is_connected, connVars, notifVars,
                   stop_event, pubVars, lastCall, disconnects, resp>>

\* shutdown() returned, the script ends
ProcessExit ==
    /\ mainPc = "sd_done"
    /\ mainPc' = "exited"
    /\ exitCode' = 0
    /\ UNCHANGED <<procVars, clockVars, mqtt_client, is_connected, connVars, notifVars, stop_event,
                   pubVars, lastCall, disconnects, resp>>

----------------------------------------------------------------------------

Next ==
    \/ OnOnline
    \/ OnOffline
    \/ LoadConfig
    \/ \E ok \in BOOLEAN : Construct(ok)
    \/ \E o \in TxOutcomes : ConnectHandshake(o)
    \/ ConnectPoll
    \/ \E tx \in TxOutcomes : ConnectProbe(tx)
    \/ ConnectConfirm
    \/ InitReturn
    \/ StartPublisher
    \/ \E s \in BOOLEAN, tx \in TxOutcomes : ClientPublish(s, tx)
    \/ \E tx \in TxOutcomes : ClientSubscribe(tx)
    \/ PubCheckStop
    \/ \E fault \in BOOLEAN : PubGate(fault)
    \/ \E tx \in TxOutcomes : PubPublish(tx)
    \/ PubWait
    \/ Health
    \/ GetConfig
    \/ \E b \in Bodies, tx \in TxOutcomes : ManualPublish(b, tx)
    \/ KeyboardInterrupt
    \/ AppRunRaises
    \/ ShutdownSet
    \/ \E t \in BOOLEAN : ShutdownJoin(t)
    \/ \E tx \in TxOutcomes : ShutdownDisconnect(tx)
    \/ ProcessExit

Spec == Init /\ [][Next]_vars

\* every transport call made by connect() returns or raises, and the main
\* thread keeps running: the steps of connect() are taken when they are enabled
FairSpec == Spec /\ WF_vars(ConnectStep)

TypeOK ==
    /\ mainPc \in {"load", "init", "connecting", "start_pub", "serving",
                   "sd_set", "sd_join", "sd_disc", "sd_done", "exited"}
    /\ exitCode \in {-1, 0, 1}
    /\ mqtt_client \in {"None", "client"}
    /\ is_connected \in BOOLEAN
    /\ connPc \in {"idle", "handshake", "poll", "probe", "confirm", "done"}
    /\ i \in 0..PollCount
    /\ probes \in 0..1
    /\ connResult \in {"none", "true", "false", "raise"}
    /\ stop_event \in BOOLEAN
    /\ pubPc \in {"unstarted", "loop", "gate", "publish", "wait", "stopped"}
    /\ cycles \in 0..MaxCycles
    /\ lastCycle \in {"none", "skipped", "true", "false", "raise"}
    /\ now \in 0..MaxTime
    /\ waitStart \in 0..MaxTime
    /\ stopTime \in 0..MaxTime

----------------------------------------------------------------------------
(* The same program with a clock: the publisher thread from its start on,  *)
(* its interval wait, and shutdown.  The publisher's own steps take no     *)
(* time; only the interval wait lets time pass.                            *)

\* variant: time.sleep(interval), the event does not end the wait
WaitOver_PlainSleep == now - waitStart >= Interval

\* stop_event.wait(timeout=interval) returns as soon as the event is set or
\* the interval has elapsed since the wait began
WaitOver == stop_event \/ now - waitStart >= Interval

\* the publisher thread has a step to take that takes no time
PublisherUrgent ==
    /\ Running
    /\ \/ pubPc \in {"gate", "publish"}
       \/ pubPc = "loop" /\ (stop_event \/ cycles < MaxCycles)
       \/ pubPc = "wait" /\ WaitOver

\* shutdown() sets the event as soon as it is entered
MainUrgent == mainPc = "sd_set"

Tick ==
    /\ Running
    /\ now < MaxTime
    /\ ~PublisherUrgent
    /\ ~MainUrgent
    /\ now' = now + 1
    /\ UNCHANGED <<procVars, waitStart, stopTime, mainVars, mqtt_client, is_connected, connVars,
                   notifVars, stop_event, pubVars, lastCall, disconnects, resp>>

TimedPubWait == WaitOver /\ PubWait

\* the publisher thread ends well inside the 5 seconds of the join
TimedShutdownJoin == ShutdownJoin(FALSE)

\* the state in which start_publisher_thread() has just started the thread:
\* connect() returned True at its second poll, after an online notification
TimedInit ==
    /\ ProcIdle
    /\ mainPc = "serving"
    /\ exitCode = -1
    /\ mqtt_client = "client"
    /\ is_connected = TRUE
    /\ connPc = "done"
    /\ i = 0
    /\ probes = 0
    /\ connResult = "true"
    /\ hs = "ok"
    /\ probe = "none"
    /\ onlineEver = TRUE
    /\ lastNotif = "online"
    /\ connOnline = TRUE
    /\ winOnline = TRUE
    /\ winStanding = TRUE
    /\ stop_event = FALSE
    /\ pubPc = "loop"
    /\ cycles = 0
    /\ lastCycle = "none"
    /\ lastCall = NoCall
    /\ disconnects = 0
    /\ resp = NoResp
    /\ now = 0
    /\ waitStart = 0
    /\ stopTime = 0

TimedNext ==
    \/ Tick
    \/ OnOnline
    \/ OnOffline
    \/ PubCheckStop
    \/ \E fault \in BOOLEAN : PubGate(fault)
    \/ \E tx \in TxOutcomes : PubPublish(tx)
    \/ TimedPubWait
    \/ KeyboardInterrupt
    \/ ShutdownSet
    \/ TimedShutdownJoin
    \/ \E tx \in TxOutcomes : ShutdownDisconnect(tx)
    \/ ProcessExit

TimedSpec == TimedInit /\ [][TimedNext]_vars

PublisherStep ==
    \/ PubCheckStop
    \/ \E fault \in BOOLEAN : PubGate(fault)
    \/ \E tx \in TxOutcomes : PubPublish(tx)
    \/ TimedPubWait

\* the publisher thread is scheduled: it takes its steps when they are enabled
TimedFairSpec == TimedSpec /\ WF_vars(PublisherStep)

----------------------------------------------------------------------------
(* src/processor.py: CANMessageValidator.validate_message.  A text is a    *)
(* sequence of one-character strings, so that matching, lower-casing,      *)
(* length and number parsing are computed on the characters.               *)

\* Config.MAX_MESSAGE_SIZE
MAX_MESSAGE_SIZE == 20

\* Config.VALID_DLC_RANGE
VALID_DLC_RANGE == <<0, 8>>

\* Config.VALID_CAN_IDS
VALID_CAN_IDS == {<<"0", "x", "1", "0", "0">>, <<"0", "x", "2", "0", "0">>,
                  <<"0", "x", "3", "0", "0">>, <<"0", "x", "4", "0", "0">>,
                  <<"0", "x", "5", "0", "0">>, <<"0", "x", "6", "0", "0">>}

\* Config.ENABLE_STRICT_VALIDATION
ENABLE_STRICT_VALIDATION == TRUE

\* datetime.now(timezone.utc).timestamp() at the time of the run, in seconds
CurrentTime == 1758200000

\* 86400 * 365: the window around the current time a timestamp must lie in
YearSeconds == 86400 * 365

Digits == <<"0", "1", "2", "3", "4", "5", "6", "7", "8", "9">>
DigitSet == {Digits[k] : k \in 1..10}
HexSet == DigitSet \cup {"a", "b", "c", "d", "e", "f"}
Whitespace == {" ", "\n", "\t"}

\* str.lower(), on the letters the inputs are made of
lower_char(c) ==
    CASE c = "A" -> "a" [] c = "B" -> "b" [] c = "C" -> "c" [] c = "D" -> "d"
      [] c = "E" -> "e" [] c = "F" -> "f" [] c = "G" -> "g" [] c = "H" -> "h"
      [] c = "N" -> "n" [] c = "O" -> "o" [] c = "T" -> "t" [] c = "X" -> "x"
      [] OTHER -> c

lower(s) == [k \in 1..Len(s) |-> lower_char(s[k])]

\* the whole of s is 0x followed by one or more of 0-9a-f
FullHex(s) ==
    /\ Len(s) >= 3
    /\ s[1] = "0"
    /\ s[2] = "x"
    /\ \A k \in 3..Len(s) : s[k] \in HexSet

\* re.match(r'^0x[0-9a-f]+$', s): without re.MULTILINE, $ matches at the end
\* of the string and also just before a newline that ends the string
re_match_hex(s) ==
    \/ FullHex(s)
    \/ /\ Len(s) >= 1
       /\ s[Len(s)] = "\n"
       /\ FullHex(SubSeq(s, 1, Len(s) - 1))

\* str.strip(): what int() and float() do with surrounding whitespace
strip(s) ==
    LET inked == {k \in 1..Len(s) : s[k] \notin Whitespace}
        first == CHOOSE k \in inked : \A j \in inked : k <= j
        last  == CHOOSE k \in inked : \A j \in inked : k >= j
    IN  IF inked = {} THEN <<>> ELSE SubSeq(s, first, last)

IsDigits(s) == Len(s) >= 1 /\ \A k \in 1..Len(s) : s[k] \in DigitSet

DigitVal(c) == (CHOOSE k \in 1..10 : Digits[k] = c) - 1

RECURSIVE NatOf(_)
NatOf(s) ==
    IF Len(s) = 0 THEN 0
    ELSE 10 * NatOf(SubSeq(s, 1, Len(s) - 1)) + DigitVal(s[Len(s)])

\* int(text): optional whitespace, optional sign, decimal digits; anything
\* else is ValueError
int(s) ==
    LET t      == strip(s)
        signed == Len(t) >= 1 /\ t[1] \in {"+", "-"}
        body   == IF signed THEN Tail(t) ELSE t
    IN  IF IsDigits(body)
          THEN [ok |-> TRUE,
                val |-> IF signed /\ t[1] = "-" THEN 0 - NatOf(body)
                                                ELSE NatOf(body)]
          ELSE [ok |-> FALSE, val |-> 0]

\* float(text) for decimal notation and nan: val is the whole part, neg says
\* the value is below zero; anything else is ValueError
float(s) ==
    LET t      == lower(strip(s))
        signed == Len(t) >= 1 /\ t[1] \in {"+", "-"}
        body   == IF signed THEN Tail(t) ELSE t
        dots   == {k \in 1..Len(body) : body[k] = "."}
        dot    == CHOOSE k \in dots : TRUE
        whole  == IF dots = {} THEN body ELSE SubSeq(body, 1, dot - 1)
        frac   == IF dots = {} THEN <<>> ELSE SubSeq(body, dot + 1, Len(body))
        minus  == signed /\ t[1] = "-"
        number == /\ Cardinality(dots) <= 1
                  /\ Len(whole) + Len(frac) >= 1
                  /\ \A k \in 1..Len(whole) : whole[k] \in DigitSet
                  /\ \A k \in 1..Len(frac) : frac[k] \in DigitSet
    IN  IF body = <<"n", "a", "n">>
          THEN [ok |-> TRUE, nan |-> TRUE, neg |-> FALSE, val |-> 0]
        ELSE IF number
          THEN [ok |-> TRUE, nan |-> FALSE,
                neg |-> minus /\ (NatOf(whole) > 0
                                    \/ \E k \in 1..Len(frac) : frac[k] # "0"),
                val |-> IF minus THEN 0 - NatOf(whole) ELSE NatOf(whole)]
          ELSE [ok |-> FALSE, nan |-> FALSE, neg |-> FALSE, val |-> 0]

Abs(n) == IF n < 0 THEN 0 - n ELSE n

required_fields == <<"timestamp", "can_id", "data", "dlc">>

\* `field not in row or not row[field]`: the key is missing, or its value is
\* None or the empty string
Falsy(f) == f.kind \in {"absent", "none"} \/ f.s = <<>>

Reject(error) == [valid |-> FALSE, error |-> error]

\* validate_message(row): the checks in the order of the source, the first
\* that fails gives the error
validate_message(r) ==
    IF \E k \in 1..Len(required_fields) : Falsy(r[required_fields[k]])
      THEN Reject("Missing or empty required field")
    ELSE LET timestamp == float(r.timestamp.s)
             can_id    == lower(r.can_id.s)
             data      == lower(r.data.s)
             dlc       == int(r.dlc.s)
    IN  IF ~timestamp.ok
          THEN Reject("Invalid timestamp format")
        ELSE IF timestamp.neg
          THEN Reject("Timestamp cannot be negative")
        ELSE IF ~timestamp.nan /\ Abs(CurrentTime - timestamp.val) > YearSeconds
          THEN Reject("Timestamp suspiciously far from current time")
        ELSE IF ~re_match_hex(can_id)
          THEN Reject("Invalid CAN ID format")
        ELSE IF ENABLE_STRICT_VALIDATION
                  /\ can_id \notin {lower(vid) : vid \in VALID_CAN_IDS}
          THEN Reject("Unknown CAN ID (not in whitelist)")
        ELSE IF ~re_match_hex(data)
          THEN Reject("Invalid data format")
        ELSE IF Len(data) > MAX_MESSAGE_SIZE
          THEN Reject("Data field too long")
        ELSE IF ~dlc.ok
          THEN Reject("Invalid DLC format")
        ELSE IF dlc.val < VALID_DLC_RANGE[1] \/ dlc.val > VALID_DLC_RANGE[2]
          THEN Reject("Invalid DLC value")
        ELSE [valid |-> TRUE, error |-> "None"]

\* the texts the fields of a message are drawn from
TimestampTexts ==
    {<<"1", "7", "5", "8", "1", "5", "6", "0", "0", "0", ".", "1", "2", "3">>,
     <<"-", "5">>, <<"1", "0", "0", "0">>, <<"n", "a", "n">>,
     <<"a", "b", "c">>, <<>>}

CanIdTexts ==
    {<<"0", "x", "1", "0", "0">>, <<"0", "X", "2", "0", "0">>,
     <<"0", "x", "7", "0", "0">>, <<"0", "x", "1", "0", "0", "\n">>,
     <<"N", "O", "T", "_", "H", "E", "X">>, <<>>}

\* 0x and n times the digit A
LongData(n) == <<"0", "x">> \o [k \in 1..n |-> "A"]

DataTexts ==
    {<<"0", "x", "1", "2", "3", "4", "5", "6", "7", "8", "9", "0",
       "A", "B", "C", "D", "E", "F">>,
     LongData(MAX_MESSAGE_SIZE - 2), LongData(MAX_MESSAGE_SIZE - 1),
     <<"0", "x", "1", "2", "\n">>, <<"1", "2">>, <<"0", "x", "G", "G">>,
     <<>>}

DlcTexts ==
    {<<"8">>, <<"0">>, <<"9">>, <<"-", "1">>, <<" ", "8">>, <<"x">>,
     <<"8", ".", "0">>, <<>>}

\* the values a key of the row can have: a text, None (a short CSV line),
\* or no such key
FieldsOf(texts) ==
    {[kind |-> "str", s |-> t] : t \in texts}
        \cup {[kind |-> "none", s |-> <<>>], Absent}

Rows == [timestamp : FieldsOf(TimestampTexts), can_id : FieldsOf(CanIdTexts),
         data : FieldsOf(DataTexts), dlc : FieldsOf(DlcTexts)]

\* a caller holds a message and has not validated it yet
ValidateInit ==
    /\ GatewayInit
    /\ row \in Rows
    /\ verdict = NoVerdict
    /\ input_file = <<>>
    /\ procPc = "idle"
    /\ readResult = "none"
    /\ line = 0
    /\ valid_messages = <<>>
    /\ invalid_count = 0
    /\ uploads = 0
    /\ runResult = "none"

\* is_valid, error = validator.validate_message(row)
Validate ==
    /\ procPc = "idle"
    /\ verdict = NoVerdict
    /\ verdict' = validate_message(row)
    /\ UNCHANGED <<gatewayVars, row, input_file, procPc, readResult, readVars,
                   uploads, runResult>>

ValidateNext == Validate

ValidateSpec == ValidateInit /\ [][ValidateNext]_vars

----------------------------------------------------------------------------
(* src/processor.py: CANDataProcessor.read_can_data, process_data,         *)
(* upload_to_s3 and run, one call of run(input_file)                       *)

\* Config.MAX_MESSAGES_PER_BATCH, scaled down from 10000 to the size of the
\* files below
MAX_MESSAGES_PER_BATCH == 2

\* the input files have up to two data rows more than the limit, so that a
\* read can skip a row, fill the batch and leave a row unread
MaxRows == MAX_MESSAGES_PER_BATCH + 2

Text(t) == [kind |-> "str", s |-> t]

\* a message that validates (the valid_msg of test_local.py)
EngineRow ==
    [timestamp |-> Text(<<"1", "7", "5", "8", "1", "5", "6", "0", "0", "0",
                          ".", "1", "2", "3">>),
     can_id |-> Text(<<"0", "x", "1", "0", "0">>),
     data |-> Text(<<"0", "x", "1", "2", "3", "4", "5", "6", "7", "8", "9",
                     "0", "A", "B", "C", "D", "E", "F">>),
     dlc |-> Text(<<"8">>)]

\* another message that validates
SpeedRow ==
    [EngineRow EXCEPT !.can_id = Text(<<"0", "X", "2", "0", "0">>),
                      !.data = Text(<<"0", "x", "1", "2">>),
                      !.dlc = Text(<<"0">>)]

\* the invalid_msg of test_local.py
BadIdRow ==
    [EngineRow EXCEPT !.can_id = Text(<<"N", "O", "T", "_", "H", "E", "X">>)]

\* a CSV line with two cells only: DictReader fills the other keys with None
ShortRow ==
    [EngineRow EXCEPT !.data = [kind |-> "none", s |-> <<>>],
                      !.dlc = [kind |-> "none", s |-> <<>>]]

FileRows == {EngineRow, SpeedRow, BadIdRow, ShortRow}

Files == UNION {[1..n -> FileRows] : n \in 0..MaxRows}

IsAccepted(r) == validate_message(r).valid

\* outcomes of s3_client.put_object inside upload_to_s3
PutOutcomes == {"ok", "ClientError", "BotoCoreError", "Exception"}

\* run(input_file) has been called
ProcInit ==
    /\ GatewayInit
    /\ row = AbsentRow
    /\ verdict = NoVerdict
    /\ input_file \in Files
    /\ procPc = "start"
    /\ readResult = "none"
    /\ line = 0
    /\ valid_messages = <<>>
    /\ invalid_count = 0
    /\ uploads = 0
    /\ runResult = "none"

\* read_can_data: open(input_file); FileNotFoundError and any other error is
\* logged and raised again
ReadOpen(ok) ==
    /\ procPc = "start"
    /\ IF ok
         THEN /\ procPc' = "reading"
              /\ readResult' = readResult
         ELSE /\ procPc' = "raised"
              /\ readResult' = "raise"
    /\ UNCHANGED <<gatewayVars, row, verdict, input_file, readVars, uploads,
                   runResult>>

\* variant: the first invalid row ends the read
ReadRow_StopsAtInvalid(fault) ==
    /\ procPc = "reading"
    /\ line < Len(input_file)
    /\ IF fault
         THEN /\ procPc' = "raised"
              /\ readResult' = "raise"
              /\ UNCHANGED readVars
       ELSE IF Len(valid_messages) >= MAX_MESSAGES_PER_BATCH
         THEN /\ procPc' = "read_done"
              /\ readResult' = "list"
              /\ UNCHANGED readVars
       ELSE IF IsAccepted(input_file[line + 1])
         THEN /\ valid_messages' = Append(valid_messages, input_file[line + 1])
              /\ line' = line + 1
              /\ UNCHANGED <<procPc, readResult, invalid_count>>
         ELSE /\ invalid_count' = invalid_count + 1
              /\ line' = line + 1
              /\ procPc' = "read_done"
              /\ readResult' = "list"
              /\ UNCHANGED valid_messages
    /\ UNCHANGED <<gatewayVars, row, verdict, input_file, uploads, runResult>>

\* read_can_data, one pass of the for loop: the reader yields the next row
\* (fault: it raises instead), the limit test, then validate_message
ReadRow(fault) ==
    /\ procPc = "reading"
    /\ line < Len(input_file)
    /\ IF fault
         THEN /\ procPc' = "raised"
              /\ readResult' = "raise"
              /\ UNCHANGED readVars
       ELSE IF Len(valid_messages) >= MAX_MESSAGES_PER_BATCH
         THEN /\ procPc' = "read_done"
              /\ readResult' = "list"
              /\ UNCHANGED readVars
       ELSE IF IsAccepted(input_file[line + 1])
         THEN /\ valid_messages' = Append(valid_messages, input_file[line + 1])
              /\ line' = line + 1
              /\ UNCHANGED <<procPc, readResult, invalid_count>>
         ELSE /\ invalid_count' = invalid_count + 1
              /\ line' = line + 1
              /\ UNCHANGED <<procPc, readResult, valid_messages>>
    /\ UNCHANGED <<gatewayVars, row, verdict, input_file, uploads, runResult>>

\* read_can_data: the reader is exhausted, return valid_messages
ReadReturn ==
    /\ procPc = "reading"
    /\ line = Len(input_file)
    /\ procPc' = "read_done"
    /\ readResult' = "list"
    /\ UNCHANGED <<gatewayVars, row, verdict, input_file, readVars, uploads,
                   runResult>>

\* variant: run() goes on with an empty list
RunCheck_NoEmptyTest ==
    /\ procPc = "read_done"
    /\ procPc' = "process"
    /\ UNCHANGED <<gatewayVars, row, verdict, input_file, readResult, readVars,
                   uploads, runResult>>

\* run(): if not messages: return False
RunCheck ==
    /\ procPc = "read_done"
    /\ IF valid_messages = <<>>
         THEN /\ procPc' = "done"
              /\ runResult' = "false"
         ELSE /\ procPc' = "process"
              /\ runResult' = runResult
    /\ UNCHANGED <<gatewayVars, row, verdict, input_file, readResult, readVars,
                   uploads>>

\* run(): processed_data = self.process_data(messages); fault: it raises
Process(fault) ==
    /\ procPc = "process"
    /\ procPc' = (IF fault THEN "raised" ELSE "upload")
    /\ UNCHANGED <<gatewayVars, row, verdict, input_file, readResult, readVars,
                   uploads, runResult>>

\* upload_to_s3: True when put_object returned, False for every exception
upload_to_s3(outcome) == outcome = "ok"

\* run(): success = self.upload_to_s3(processed_data); return success
Upload(outcome) ==
    /\ procPc = "upload"
    /\ uploads' = uploads + 1
    /\ runResult' = (IF upload_to_s3(outcome) THEN "true" ELSE "false")
    /\ procPc' = "done"
    /\ UNCHANGED <<gatewayVars, row, verdict, input_file, readResult, readVars>>

\* run(): except Exception: return False
RunExcept ==
    /\ procPc = "raised"
    /\ procPc' = "done"
    /\ runResult' = "false"
    /\ UNCHANGED <<gatewayVars, row, verdict, input_file, readResult, readVars,
                   uploads>>

ProcNext ==
    \/ \E ok \in BOOLEAN : ReadOpen(ok)
    \/ \E fault \in BOOLEAN : ReadRow(fault)
    \/ ReadReturn
    \/ RunCheck
    \/ \E fault \in BOOLEAN : Process(fault)
    \/ \E outcome \in PutOutcomes : Upload(outcome)
    \/ RunExcept

ProcSpec == ProcInit /\ [][ProcNext]_vars

----------------------------------------------------------------------------
(* Properties                                                              *)

\* the step on which connect() returns
ConnectReturns == connPc # "done" /\ connPc' = "done"

C2_NoOnlineInWindowProbes ==
    [][(ConnectReturns /\ hs' = "ok" /\ ~winOnline') =>
          /\ probes' = 1
          /\ probe' # "none"
          /\ (probe' = "ok") => (connResult' = "true" /\ is_connected')
          /\ (probe' = "raise") => (connResult' = "false")]_vars

\* C2 (amended): when the handshake succeeded and no online notification
\* fired from the start of connect() to the end of the confirmation window,
\* connect() returns having issued exactly one probe, True (flag set) if the
\* probe did not raise and False if it raised.
C2_NoOnlineProbes ==
    [][(ConnectReturns /\ hs' = "ok" /\ ~connOnline') =>
          /\ probes' = 1
          /\ probe' # "none"
          /\ (probe' = "ok") => (connResult' = "true" /\ is_connected')
          /\ (probe' = "raise") => (connResult' = "false")]_vars

\* connect() returned False after a silent window and a raising probe
C2_Witness ==
    /\ connPc = "done"
    /\ hs = "ok"
    /\ ~connOnline
    /\ probes = 1
    /\ probe = "raise"
    /\ connResult = "false"

\* C3: connect() makes at most 20 polls and at most one probe publish, and
\* every call that has started returns True or False.
C3_ConnectTerminates ==
    /\ [](i <= PollCount /\ probes <= 1)
    /\ (connPc = "handshake") ~> (connPc = "done" /\ connResult \in {"true", "false"})

\* connect() returned after all 20 polls and the probe
C3_Witness ==
    /\ connPc = "done"
    /\ i = PollCount
    /\ probes = 1
    /\ connResult \in {"true", "false"}

\* C4 (as stated): on the step connect() returns, the flag agrees with the
\* result: True with is_connected set, False with is_connected clear.
C4_ResultAgreesWithFlag ==
    [][ConnectReturns => ((connResult' = "true") <=> is_connected')]_vars

\* C5: when the handshake raises, connect() returns False, raises nothing,
\* makes no poll and issues no probe.
C5_HandshakeRaiseIsFalse ==
    (connPc = "done" /\ mainPc = "connecting" /\ hs = "raise") =>
        (connResult = "false" /\ i = 0 /\ probes = 0 /\ probe = "none")

\* connect() has returned from a raising handshake
C5_Witness ==
    /\ connPc = "done"
    /\ mainPc = "connecting"
    /\ hs = "raise"
    /\ connResult = "false"

\* a step that calls publish() with a payload that does not serialize or a
\* transport write that raises
FailedPublishCall ==
    \/ \E s \in BOOLEAN, tx \in TxOutcomes :
          ~(s /\ tx = "ok") /\ ClientPublish(s, tx)
    \/ PubPublish("raise")
    \/ \E b \in Bodies : ~PayloadRaises(b) /\ ManualPublish(b, "raise")

\* C6: a publish() call that fails returns False, raises nothing and leaves
\* is_connected as it was.
C6_FailedPublishIsFalse ==
    [][FailedPublishCall =>
          /\ lastCall'.op = "publish"
          /\ lastCall'.ret = FALSE
          /\ ~lastCall'.raised
          /\ ~lastCall'.sent
          /\ is_connected' = is_connected]_vars

\* a publish() call has failed while the session was marked connected
C6_Witness ==
    /\ lastCall.op = "publish"
    /\ lastCall.ret = FALSE
    /\ is_connected

\* C7 (as stated): on the step disconnect() returns, is_connected is False.
C7_DisconnectClearsFlag ==
    [][(mainPc = "sd_disc" /\ mainPc' = "sd_done") => ~is_connected']_vars

\* C8: is_connected is True only if an online notification has been
\* delivered or a probe publish has completed without raising.
C8_OnlineHasCause ==
    is_connected => (onlineEver \/ probe = "ok")

\* the flag was set by the probe alone
C8_Witness ==
    /\ is_connected
    /\ ~onlineEver
    /\ probe = "ok"
    /\ connPc = "done"

\* the operations that must leave the flag alone
ReadOnlyOps ==
    \/ \E s \in BOOLEAN, tx \in TxOutcomes : ClientPublish(s, tx)
    \/ \E tx \in TxOutcomes : ClientSubscribe(tx)
    \/ \E tx \in TxOutcomes : ShutdownDisconnect(tx)
    \/ PubCheckStop
    \/ \E fault \in BOOLEAN : PubGate(fault)
    \/ \E tx \in TxOutcomes : PubPublish(tx)
    \/ PubWait
    \/ Health
    \/ GetConfig
    \/ \E b \in Bodies, tx \in TxOutcomes : ManualPublish(b, tx)

\* C9: is_connected changes only on a step of _on_online, _on_offline or the
\* fallback branch of connect(); publish, subscribe, disconnect, the
\* scheduled cycle, health, manual publish and config readback leave it as
\* it was.
C9_FlagWriters ==
    [][/\ (is_connected' # is_connected) =>
              (OnOnline \/ OnOffline \/ ConnectConfirm)
       /\ ReadOnlyOps => (is_connected' = is_connected)]_vars

\* disconnect() has run after publishes and a scheduled cycle, the flag still set
C9_Witness ==
    /\ mainPc = "sd_done"
    /\ disconnects = 1
    /\ is_connected
    /\ lastCall.op = "publish"
    /\ lastCycle # "none"

\* C10: the publisher thread stops only from its while test with the
\* shutdown signal set; a cycle, however it ends, is followed by the
\* interval wait, and the wait by the while test.
C10_LoopExitsOnlyOnStop ==
    [][/\ (pubPc # "stopped" /\ pubPc' = "stopped") =>
              (pubPc = "loop" /\ stop_event)
       /\ (pubPc \in {"gate", "publish"}) =>
              (pubPc' \in {"gate", "publish", "wait"})
       /\ (pubPc = "wait") => (pubPc' \in {"wait", "loop"})]_vars

\* a new cycle has started after a cycle that returned False or raised
C10_Witness ==
    /\ pubPc = "gate"
    /\ lastCycle \in {"false", "raise"}
    /\ ~stop_event

\* a scheduled cycle that finds no client or the flag clear
SkippedCycle ==
    /\ PubGate(FALSE)
    /\ ~(mqtt_client # "None" /\ is_connected)

\* C11: a scheduled cycle that finds the session not connected calls no
\* publish and goes to the interval wait; the cycle after it starts only
\* when a whole interval has passed since that wait began.
C11_SkipWaitsFullInterval ==
    [][/\ SkippedCycle =>
              (lastCall' = lastCall /\ lastCycle' = "skipped" /\ pubPc' = "wait")
       /\ (pubPc = "loop" /\ pubPc' = "gate" /\ lastCycle = "skipped") =>
              (now - waitStart >= Interval)]_vars

\* a cycle has started one interval after a skipped one
C11_Witness ==
    /\ pubPc = "gate"
    /\ lastCycle = "skipped"
    /\ cycles >= 2
    /\ now - waitStart = Interval
    /\ ~is_connected

\* C12: once the shutdown signal is set the publisher thread reaches its
\* end; from then on no cycle starts, and time does not pass with the thread
\* still in its interval wait.
C12_StopEndsPublisher ==
    /\ stop_event ~> (pubPc = "stopped")
    /\ [][stop_event =>
            /\ cycles' = cycles
            /\ (now' > now) => (pubPc # "wait")]_vars

\* the thread has ended in the middle of an interval
C12_Witness ==
    /\ stop_event
    /\ pubPc = "stopped"
    /\ stopTime = now
    /\ now - waitStart > 0
    /\ now - waitStart < Interval

\* the signal was set two and a half intervals after the thread started
StoppedAtTwoAndAHalf == stop_event /\ 2 * stopTime = 5 * Interval

\* C13: with the signal set 2.5 intervals after the start, the publisher
\* has made 2 or 3 cycles when it ends; no cycle starts once the signal is
\* set, and the thread has ended before time passes again.
C13_TwoOrThreeCycles ==
    /\ []((StoppedAtTwoAndAHalf /\ pubPc = "stopped") => cycles \in {2, 3})
    /\ [][stop_event =>
            /\ cycles' = cycles
            /\ (now' > now) => (pubPc = "stopped")]_vars

\* the thread has ended at 2.5 intervals after three cycles
C13_Witness ==
    /\ StoppedAtTwoAndAHalf
    /\ pubPc = "stopped"
    /\ now = stopTime
    /\ cycles = 3

\* C14 (as stated): a process that has ended after a successful startup has
\* called disconnect() exactly once.
C14_ExitDisconnectsOnce ==
    (mainPc = "exited" /\ connResult = "true" /\ pubPc # "unstarted") =>
        (disconnects = 1)

\* C15: shutdown() sets the signal before it begins the join, calls
\* disconnect() only from after the join and with the signal set, and ends
\* normally also when the transport's disconnect raises.
C15_ShutdownOrder ==
    [][/\ (mainPc # "sd_join" /\ mainPc' = "sd_join") => stop_event'
       /\ (mainPc # "sd_disc" /\ mainPc' = "sd_disc") => (mainPc = "sd_join")
       /\ (disconnects' # disconnects) =>
              (stop_event /\ mainPc = "sd_disc" /\ disconnects' = disconnects + 1)
       /\ ShutdownDisconnect("raise") => (mainPc' = "sd_done")]_vars

\* disconnect() was called after a join that timed out
C15_Witness ==
    /\ mainPc = "sd_done"
    /\ disconnects = 1
    /\ stop_event
    /\ pubPc \notin {"stopped", "unstarted"}

\* C16: the shutdown signal starts unset, is set only by shutdown(), and
\* once set is never cleared.
C16_SignalSetOnce ==
    /\ ~stop_event
    /\ [][/\ stop_event => stop_event'
          /\ (~stop_event /\ stop_event') => ShutdownSet]_vars

\* the signal is still set after the publisher saw it and the process ended
C16_Witness ==
    /\ stop_event
    /\ pubPc = "stopped"
    /\ mainPc = "exited"

\* C17 (as stated): manual publish with no body publishes the default
\* envelope; with a supplied JSON object, the empty one included, it
\* publishes the supplied body with only timestamp overwritten.
C17_ManualPayload ==
    (resp.op = "publish" /\ resp.code = 200
        /\ resp.body \in {"none", "empty", "object"}) =>
        resp.payload = (IF resp.body = "none" THEN DefaultPayload
                                              ELSE SuppliedOf(resp.body))

\* C18: manual publish answers 200 with the payload exactly when publish()
\* returned True in this call, and 500 with an error status otherwise
\* (publish returned False, or an exception in the handler); the handler
\* always answers and the server goes on serving.
C18_ManualPublishCodes ==
    [][\A b \in Bodies, tx \in TxOutcomes :
          ManualPublish(b, tx) =>
            /\ mainPc' = "serving"
            /\ resp'.op = "publish"
            /\ IF ~PayloadRaises(b) /\ mqtt_client # "None"
                    /\ lastCall'.caller = "manual" /\ lastCall'.ret
                 THEN resp'.code = 200 /\ resp'.status = "success"
                      /\ resp'.payload = ManualPayload(b) /\ lastCall'.sent
                 ELSE resp'.code = 500 /\ resp'.status = "error"]_vars

\* a failed publish was answered 500
C18_Witness ==
    /\ resp.op = "publish"
    /\ resp.code = 500
    /\ resp.body = "object"
    /\ lastCall.caller = "manual"
    /\ ~lastCall.ret

\* C19 (as stated): the health query is enabled in every state of the
\* gateway, the states inside connect()'s confirmation window included.
C19_HealthEnabledInWindow ==
    (mainPc = "serving" \/ InWindow) => ENABLED Health

\* the health query leaves everything but its own response alone
HealthFrame ==
    UNCHANGED <<procVars, clockVars, mainVars, mqtt_client, is_connected, connVars,
                notifVars, stop_event, pubVars, lastCall, disconnects>>

\* C19 (amended): the health query is enabled in every state in which the
\* control surface is served, whatever the publisher is doing; it issues no
\* transport call, changes no state and reports is_connected as it is when
\* read (false when there is no client).
C19_HealthWhileServing ==
    /\ [](mainPc = "serving" => ENABLED Health)
    /\ [][Health =>
            /\ HealthFrame
            /\ resp'.code = 200
            /\ resp'.mqtt_connected = (mqtt_client # "None" /\ is_connected)]_vars

\* health answered "not connected" while the publisher is inside a publish
C19_Witness ==
    /\ mainPc = "serving"
    /\ pubPc = "publish"
    /\ resp.op = "health"
    /\ resp.mqtt_connected = is_connected

\* the states in which the control surface is or was served
Served == mainPc \in {"serving", "sd_set", "sd_join", "sd_disc", "sd_done"}

\* C20: the publisher is started and the control surface served only after
\* connect() returned true; a constructor that raises or a connect() that
\* returns false ends the process with a nonzero code, the publisher never
\* started and no scheduled publish attempted.
C20_StartupOrder ==
    /\ []((pubPc # "unstarted" \/ Served \/ resp # NoResp \/ cycles > 0)
            => connResult = "true")
    /\ []((mainPc = "exited" /\ connResult # "true")
            => (exitCode # 0 /\ pubPc = "unstarted" /\ cycles = 0
                /\ lastCall.caller # "scheduled"))
    /\ [][/\ Construct(FALSE) => (mainPc' = "exited" /\ exitCode' # 0)
          /\ (InitReturn /\ connResult # "true")
                => (mainPc' = "exited" /\ exitCode' # 0)]_vars

\* connect() returned false and the process ended with code 1
C20_Witness ==
    /\ mainPc = "exited"
    /\ connResult = "false"
    /\ exitCode = 1
    /\ pubPc = "unstarted"

\* a notification is delivered
Notified == OnOnline \/ OnOffline

\* C22: once connect() has returned, every notification leaves is_connected
\* true exactly when it was an online one, and nothing but a notification
\* changes is_connected or the transport's latest word.
C22_NotificationsDriveFlag ==
    [][/\ (connPc = "done" /\ Notified) =>
              (is_connected' <=> lastNotif' = "online")
       /\ (connPc = "done" /\ ~Notified) =>
              (is_connected' = is_connected /\ lastNotif' = lastNotif)]_vars

\* connect() confirmed by its probe, then an offline notification, the first
\* notification of the run, cleared the flag
C22_Witness ==
    /\ connPc = "done"
    /\ connResult = "true"
    /\ probe = "ok"
    /\ ~onlineEver
    /\ lastNotif = "offline"
    /\ ~is_connected

\* C23 (as stated): is_connected is never true in a state where the most
\* recent notification of the transport was offline.
C23_NeverAgainstLatestWord ==
    ~(is_connected /\ lastNotif = "offline")

\* C24 (as stated): once shutdown() has called disconnect(), the publisher
\* makes no further transport publish.
C24_NoPublishAfterDisconnect ==
    [][disconnects >= 1 => ~(\E tx \in TxOutcomes : PubPublish(tx))]_vars

\* C25: the scheduled cycle reaches its publish only through a gate that
\* read is_connected true; manual publish can be invoked and calls publish()
\* in every connectivity state, and answers by publish()'s result alone.
C25_PathsGateDifferently ==
    /\ []((mainPc = "serving" /\ ~is_connected)
            => ENABLED ManualPublish("none", "ok"))
    /\ [][/\ (pubPc # "publish" /\ pubPc' = "publish") =>
                (pubPc = "gate" /\ mqtt_client # "None" /\ is_connected)
          /\ \A b \in Bodies, tx \in TxOutcomes :
                (ManualPublish(b, tx) /\ ~PayloadRaises(b)) =>
                    /\ lastCall' = publish("manual", TRUE, tx)
                    /\ resp'.code = (IF tx = "ok" THEN 200 ELSE 500)]_vars

\* a manual publish was sent and answered 200 in a run whose session has
\* never been online and whose scheduled cycles were all skipped
C25_Witness ==
    /\ ~is_connected
    /\ lastNotif = "offline"
    /\ resp.op = "publish"
    /\ resp.code = 200
    /\ lastCall.caller = "manual"
    /\ lastCall.sent
    /\ lastCycle = "skipped"

\* C21 (as stated): validate_message returns (True, None) only when all
\* checks pass and (False, error) for every message with a missing or empty
\* required field, a can_id that is not 0x hex or not whitelisted, a data
\* field that is not 0x hex or longer than MAX_MESSAGE_SIZE, or a dlc outside
\* 0..8.
C21_ValidateRejects ==
    LET StrictHex(s) == FullHex(lower(s))
        ClaimedInvalid(r) ==
            \/ \E k \in 1..Len(required_fields) : Falsy(r[required_fields[k]])
            \/ ~StrictHex(r.can_id.s)
            \/ lower(r.can_id.s) \notin VALID_CAN_IDS
            \/ ~StrictHex(r.data.s)
            \/ Len(r.data.s) > MAX_MESSAGE_SIZE
            \/ ~int(r.dlc.s).ok
            \/ int(r.dlc.s).val < 0
            \/ int(r.dlc.s).val > 8
    IN  (verdict # NoVerdict) =>
            /\ verdict.valid <=> verdict.error = "None"
            /\ ClaimedInvalid(row) => ~verdict.valid

\* C26: read_can_data keeps, in input order, exactly the rows
\* validate_message accepts among those it has looked at; a rejected row is
\* counted and the read goes on; the list never exceeds
\* MAX_MESSAGES_PER_BATCH, and the read returns only at the end of the file
\* or with that many rows collected.
C26_ReadKeepsValidRows ==
    /\ [](procPc # "idle" =>
            /\ valid_messages = SelectSeq(SubSeq(input_file, 1, line), IsAccepted)
            /\ invalid_count = line - Len(valid_messages)
            /\ Len(valid_messages) <= MAX_MESSAGES_PER_BATCH)
    /\ [](readResult = "list" =>
            \/ line = Len(input_file)
            \/ Len(valid_messages) = MAX_MESSAGES_PER_BATCH)
    /\ [][(procPc = "reading" /\ invalid_count' = invalid_count + 1) =>
            (procPc' = "reading" /\ valid_messages' = valid_messages)]_vars

\* a read that skipped an invalid row, went on, and stopped at the limit
\* with a row of the file still unread
C26_Witness ==
    /\ readResult = "list"
    /\ invalid_count >= 1
    /\ Len(valid_messages) = MAX_MESSAGES_PER_BATCH
    /\ input_file[1] = BadIdRow
    /\ line < Len(input_file)

\* C27: run() uploads only after process_data, which it enters only with a
\* non-empty list from read_can_data; it uploads at most once, not at all
\* when the read raised or gave no messages; it always returns a boolean,
\* true exactly when the upload was made and succeeded.
C27_RunPipeline ==
    /\ [](uploads <= 1)
    /\ []((readResult = "raise" \/ (readResult = "list" /\ valid_messages = <<>>))
            => (uploads = 0 /\ procPc \notin {"process", "upload"}))
    /\ [](procPc = "done" => runResult \in {"true", "false"})
    /\ [](runResult # "raise")
    /\ [](runResult = "true" => uploads = 1)
    /\ [][/\ (procPc' = "process" /\ procPc # "process") =>
                (procPc = "read_done" /\ readResult = "list")
          /\ (procPc' = "upload" /\ procPc # "upload") => procPc = "process"
          /\ (uploads' # uploads) =>
                (procPc = "upload" /\ procPc' = "done" /\ uploads' = uploads + 1)
          /\ \A outcome \in PutOutcomes :
                Upload(outcome) => (runResult' = "true" <=> outcome = "ok")]_vars

\* a run whose only upload failed and which returned false
C27_Witness ==
    /\ procPc = "done"
    /\ uploads = 1
    /\ runResult = "false"
    /\ invalid_count >= 1

====
